---- MODULE Spec2Model ----
(***************************************************************************)
(* Model of src/app/src/HoltWintersDemo.js: the holtWinters function       *)
(* (triple exponential smoothing, multiplicative seasonality) and the      *)
(* HoltWintersDemo component that calls it with its slider state.          *)
(*                                                                         *)
(* JavaScript numbers are modelled as exact rationals extended with the    *)
(* IEEE-754 special values the code can produce (signed zero, +/-Infinity, *)
(* NaN) and with the JavaScript values undefined and null.  Rounding of    *)
(* finite results is not modelled: a finite result is the exact rational.  *)
(* Numerators and denominators are kept up to MaxMagnitude; a call is      *)
(* followed as long as every number it computes stays within that range.   *)
(***************************************************************************)
EXTENDS Integers, Sequences, FiniteSets, TLC

\* ------------------------------------------------------------------ bounds
\* Longest input series drawn.
MaxLen == 3
\* Largest seasonalPeriod drawn (the smallest is 1).
MaxPeriod == 2
\* Largest forecastSize drawn (the smallest is 0).
MaxHorizon == 3
\* Largest numerator and denominator of a finite number that is followed.
MaxMagnitude == 30000

\* ----------------------------------------------------- JavaScript values
RECURSIVE GCD(_, _)
GCD(a, b) == IF b = 0 THEN a ELSE GCD(b, a % b)

\* A finite number whose exact value is outside the range that is followed.
OutOfRange == [k |-> "big", s |-> 1, n |-> 0, d |-> 0]

\* A finite number sgn * num / den in lowest terms; num = 0 is the signed zero.
Fin(sgn, num, den) ==
    LET g == GCD(num, den)
    IN  IF num \div g > MaxMagnitude \/ den \div g > MaxMagnitude
        THEN OutOfRange
        ELSE [k |-> "fin", s |-> sgn, n |-> num \div g, d |-> den \div g]

InRange(x) == x.k # "big"

\* The number with integer value x.
Int2Num(x) == IF x < 0 THEN Fin(-1, -x, 1) ELSE Fin(1, x, 1)

\* The number p / q for integers p >= 0, q > 0.
Rat(p, q) == Fin(1, p, q)

Inf(sgn) == [k |-> "inf", s |-> sgn, n |-> 1, d |-> 0]

NaN == [k |-> "nan", s |-> 1, n |-> 0, d |-> 0]

Undefined == [k |-> "undef", s |-> 1, n |-> 0, d |-> 0]

Null == [k |-> "null", s |-> 1, n |-> 0, d |-> 0]

\* ToNumber: undefined converts to NaN and null to +0.
ToNumber(x) ==
    IF x.k = "undef" THEN NaN
    ELSE IF x.k = "null" THEN Fin(1, 0, 1)
    ELSE x

IsZero(x) == x.k = "fin" /\ x.n = 0

IsFinite(x) == x.k = "fin"

\* a + b (finite operands are brought to their least common denominator)
Add(x, y) ==
    LET a == ToNumber(x)
        b == ToNumber(y)
        g == GCD(a.d, b.d)
        t == a.s * a.n * (b.d \div g) + b.s * b.n * (a.d \div g)
    IN  IF a.k = "big" \/ b.k = "big" THEN OutOfRange
        ELSE IF a.k = "nan" \/ b.k = "nan" THEN NaN
        ELSE IF a.k = "inf" /\ b.k = "inf" THEN (IF a.s = b.s THEN a ELSE NaN)
        ELSE IF a.k = "inf" THEN a
        ELSE IF b.k = "inf" THEN b
        ELSE IF t = 0 THEN Fin(IF a.s = -1 /\ b.s = -1 THEN -1 ELSE 1, 0, 1)
        ELSE IF t < 0 THEN Fin(-1, -t, a.d * (b.d \div g))
        ELSE Fin(1, t, a.d * (b.d \div g))

\* -a
Neg(x) ==
    LET a == ToNumber(x)
    IN  IF a.k \in {"nan", "big"} THEN a ELSE [a EXCEPT !.s = -a.s]

\* a - b
Sub(x, y) == Add(x, Neg(y))

\* The finite number sgn * (p1 * p2) / (q1 * q2), common factors cancelled first.
FinProduct(sgn, p1, q1, p2, q2) ==
    LET g1 == GCD(p1, q2)
        g2 == GCD(p2, q1)
    IN  IF p1 = 0 \/ p2 = 0 THEN Fin(sgn, 0, 1)
        ELSE Fin(sgn, (p1 \div g1) * (p2 \div g2), (q1 \div g2) * (q2 \div g1))

\* a * b
Mul(x, y) ==
    LET a == ToNumber(x)
        b == ToNumber(y)
    IN  IF a.k = "big" \/ b.k = "big" THEN OutOfRange
        ELSE IF a.k = "nan" \/ b.k = "nan" THEN NaN
        ELSE IF a.k = "inf" \/ b.k = "inf"
             THEN (IF IsZero(a) \/ IsZero(b) THEN NaN ELSE Inf(a.s * b.s))
        ELSE FinProduct(a.s * b.s, a.n, a.d, b.n, b.d)

\* a / b
Div(x, y) ==
    LET a == ToNumber(x)
        b == ToNumber(y)
    IN  IF a.k = "big" \/ b.k = "big" THEN OutOfRange
        ELSE IF a.k = "nan" \/ b.k = "nan" THEN NaN
        ELSE IF a.k = "inf" THEN (IF b.k = "inf" THEN NaN ELSE Inf(a.s * b.s))
        ELSE IF b.k = "inf" THEN Fin(a.s * b.s, 0, 1)
        ELSE IF b.n = 0 THEN (IF a.n = 0 THEN NaN ELSE Inf(a.s * b.s))
        ELSE FinProduct(a.s * b.s, a.n, a.d, b.d, b.n)

\* array[j]: an index outside the array reads undefined (0-based j).
At(arr, j) == IF j >= 0 /\ j < Len(arr) THEN arr[j + 1] ELSE Undefined

\* ------------------------------------------------------------ input sets
\* Observed values drawn for the input series.
Values == {0, 1, 2}

\* Smoothing coefficients drawn for a direct call: 0, 1/2, 1 and 3/2.
Coefficients == {Rat(0, 1), Rat(1, 2), Rat(1, 1), Rat(3, 2)}

\* Positions of a slider drawn (each is within min 0 .. max 1): the three
\* initial positions 0.4, 0.5 and 0.6.
SliderValues == {Rat(2, 5), Rat(1, 2), Rat(3, 5)}

\* The records of an input array whose values are vals: {month, value}.
DataOf(vals) ==
    [j \in 1..Len(vals) |-> [month |-> <<"Month", j>>, value |-> Int2Num(vals[j])]]

\* Lines drawn as input series as well: start + slope * j, as the trend term of
\* generateSampleData; they reach larger and negative values than Values.
LineStarts == {1, 3}

LineSlopes == {-1, 1, 2}

LineOf(start, slope, len) == [j \in 1..len |-> start + slope * (j - 1)]

\* Series drawn: every series of 0..MaxLen values of Values, and every line of
\* 2..MaxLen values.
SeriesDrawn ==
    UNION {[1..len -> Values] : len \in 0..MaxLen}
    \cup {LineOf(start, slope, len) :
              start \in LineStarts, slope \in LineSlopes, len \in 2..MaxLen}

\* Input arrays drawn: the records of every series drawn.
Inputs == {DataOf(vals) : vals \in SeriesDrawn}

\* ------------------------------------------------------------------ state
VARIABLES
    data,            \* argument data (the component's data state)
    alpha,           \* argument alpha (the component's alpha state)
    beta,            \* argument beta (the component's beta state)
    gamma,           \* argument gamma (the component's gamma state)
    seasonalPeriod,  \* argument seasonalPeriod
    forecastSize,    \* argument forecastSize
    seasonals,       \* local array seasonals
    level,           \* local level
    trend,           \* local trend
    results,         \* local array results; the returned array once pc = "done"
    i,               \* loop index of the loop pc names
    pc,              \* "idle", "loop", "forecast", "done"
    firstRender      \* history: what the component's first render returned

vars == <<data, alpha, beta, gamma, seasonalPeriod, forecastSize, seasonals,
          level, trend, results, i, pc, firstRender>>

\* const series = data.map(d => d.value)
SeriesOf(d) == [j \in 1..Len(d) |-> d[j].value]

\* The inner loop over j = p, p + m, ...: sum += series[j]; count++; then sum / count.
RECURSIVE PhaseAverage(_, _, _, _, _)
PhaseAverage(series, j, m, sum, count) ==
    IF j < Len(series)
    THEN PhaseAverage(series, j + m, m, Add(sum, At(series, j)), count + 1)
    ELSE Div(sum, Int2Num(count))

\* Array(seasonalPeriod).fill(0), then seasonals[p] = sum / count for every phase p.
InitialSeasonals(series, m) ==
    [p \in 1..m |-> PhaseAverage(series, p - 1, m, Int2Num(0), 0)]

\* seasonals.reduce((a, b) => a + b): starts from the first element.
RECURSIVE Reduce(_, _)
Reduce(seas, upto) ==
    IF upto = 1 THEN seas[1] ELSE Add(Reduce(seas, upto - 1), seas[upto])

\* Mutant of SeasonalAverage: the sum of the table, its division by
\* seasonalPeriod forgotten.
SeasonalSum(seas, m) == Reduce(seas, m)

\* seasonalAverage = reduce(...) / seasonalPeriod
SeasonalAverage(seas, m) == Div(Reduce(seas, m), Int2Num(m))

\* seasonals.forEach((val, i) => seasonals[i] = val / seasonalAverage)
Normalize(seas, m) ==
    LET seasonalAverage == SeasonalAverage(seas, m)
    IN  [p \in 1..m |-> Div(seas[p], seasonalAverage)]

\* let level = series[0]
SeedLevel(series) == At(series, 0)

\* let trend = (series[seasonalPeriod] - series[0]) / seasonalPeriod
SeedTrend(series, m) == Div(Sub(At(series, m), At(series, 0)), Int2Num(m))

\* Mutant of FreshResults: the array of the previous call is used again.
StaleResults == results

\* const results = []
FreshResults == <<>>

\* Mutant of NewLevel: the trend is left out of the smoothed term.
NewLevelWithoutTrend(a, value, seasonal, lastLevel, tr) ==
    Add(Mul(a, Div(value, seasonal)), Mul(Sub(Int2Num(1), a), lastLevel))

\* level = alpha * (value / seasonals[i % m]) + (1 - alpha) * (lastLevel + trend)
NewLevel(a, value, seasonal, lastLevel, tr) ==
    Add(Mul(a, Div(value, seasonal)), Mul(Sub(Int2Num(1), a), Add(lastLevel, tr)))

\* trend = beta * (level - lastLevel) + (1 - beta) * trend
NewTrend(b, lvl, lastLevel, tr) ==
    Add(Mul(b, Sub(lvl, lastLevel)), Mul(Sub(Int2Num(1), b), tr))

\* Mutant of NewSeasonal: the slot is updated from the level of the previous step.
NewSeasonalOldLevel(g, value, lvl, seasonal) ==
    Add(Mul(g, Div(value, level)), Mul(Sub(Int2Num(1), g), seasonal))

\* seasonals[i % m] = gamma * (value / level) + (1 - gamma) * seasonals[i % m]
NewSeasonal(g, value, lvl, seasonal) ==
    Add(Mul(g, Div(value, lvl)), Mul(Sub(Int2Num(1), g), seasonal))

\* Mutant of Fitted: the trend is not added to the level.
FittedLevelOnly(lvl, tr, seasonal) == Mul(lvl, seasonal)

\* fitted: (level + trend) * seasonals[i % m]
Fitted(lvl, tr, seasonal) == Mul(Add(lvl, tr), seasonal)

\* { ...data[i], fitted }
FittedRecord(rec, fit) == [month |-> rec.month, value |-> rec.value, fitted |-> fit]

\* Mutant of ForecastValue: the phase is counted from 0, not from n.
ForecastValuePhaseFromZero(lvl, tr, seas, n, idx, m) ==
    Mul(Add(lvl, Mul(tr, Int2Num(idx + 1))), seas[(idx % m) + 1])

\* forecast = (level + trend * (i + 1)) * seasonals[(n + i) % m]
ForecastValue(lvl, tr, seas, n, idx, m) ==
    Mul(Add(lvl, Mul(tr, Int2Num(idx + 1))), seas[((n + idx) % m) + 1])

\* Mutant of ForecastRecord: the forecast is stored as the observed value too.
ForecastRecordObserved(idx, forecast) ==
    [month |-> <<"Forecast", idx + 1>>, value |-> forecast, fitted |-> forecast]

\* { month: `Forecast ${i + 1}`, value: null, fitted: forecast }
ForecastRecord(idx, forecast) ==
    [month |-> <<"Forecast", idx + 1>>, value |-> Null, fitted |-> forecast]

\* ---------------------------------------------------------------- actions
\* holtWinters lines 6-29: bind the arguments, initialize and normalize the
\* seasonal table, seed level and trend, create the results array.
Enter(d, a, b, g, m, h) ==
    LET series == SeriesOf(d)
    IN  /\ data' = d
        /\ alpha' = a
        /\ beta' = b
        /\ gamma' = g
        /\ seasonalPeriod' = m
        /\ forecastSize' = h
        /\ seasonals' = Normalize(InitialSeasonals(series, m), m)
        /\ level' = SeedLevel(series)
        /\ trend' = SeedTrend(series, m)
        /\ results' = FreshResults
        /\ i' = 0
        /\ pc' = "loop"
        /\ \A p \in 1..m : InRange(seasonals'[p])
        /\ InRange(trend')

\* A direct call of holtWinters with the arguments drawn.
Call ==
    /\ pc \in {"idle", "done"}
    /\ Enter(data, alpha, beta, gamma, seasonalPeriod, forecastSize)
    /\ UNCHANGED firstRender

\* One iteration of the loop of lines 32-46, in the order of its statements:
\* level, then trend from the new level, then the seasonal slot from the new
\* level, then the record pushed from the three new values.
Step ==
    /\ pc = "loop"
    /\ i < Len(data)
    /\ LET value == data[i + 1].value
           slot == (i % seasonalPeriod) + 1
           lastLevel == level
       IN  /\ level' = NewLevel(alpha, value, seasonals[slot], lastLevel, trend)
           /\ trend' = NewTrend(beta, level', lastLevel, trend)
           /\ seasonals' = [seasonals EXCEPT
                               ![slot] = NewSeasonal(gamma, value, level', seasonals[slot])]
           /\ results' = Append(results,
                   FittedRecord(data[i + 1], Fitted(level', trend', seasonals'[slot])))
           /\ InRange(level') /\ InRange(trend') /\ InRange(seasonals'[slot])
           /\ InRange(results'[i + 1].fitted)
    /\ i' = i + 1
    /\ UNCHANGED <<data, alpha, beta, gamma, seasonalPeriod, forecastSize, pc, firstRender>>

\* The loop of lines 32-46 ends (i = n) and the loop of lines 49-57 starts.
EndLoop ==
    /\ pc = "loop"
    /\ i = Len(data)
    /\ pc' = "forecast"
    /\ i' = 0
    /\ UNCHANGED <<data, alpha, beta, gamma, seasonalPeriod, forecastSize, seasonals,
                   level, trend, results, firstRender>>

\* One iteration of the loop of lines 49-57.
Forecast ==
    /\ pc = "forecast"
    /\ i < forecastSize
    /\ results' = Append(results, ForecastRecord(i,
                    ForecastValue(level, trend, seasonals, Len(data), i, seasonalPeriod)))
    /\ InRange(results'[Len(results')].fitted)
    /\ i' = i + 1
    /\ UNCHANGED <<data, alpha, beta, gamma, seasonalPeriod, forecastSize, seasonals,
                   level, trend, pc, firstRender>>

\* return results (line 59)
ReturnResults ==
    /\ pc = "forecast"
    /\ i = forecastSize
    /\ pc' = "done"
    /\ UNCHANGED <<data, alpha, beta, gamma, seasonalPeriod, forecastSize, seasonals,
                   level, trend, results, i>>

\* A direct call returns.
Return == ReturnResults /\ UNCHANGED firstRender

\* Before a direct call: its arguments are drawn from the input sets.
Init ==
    /\ data \in Inputs
    /\ alpha \in Coefficients
    /\ beta \in Coefficients
    /\ gamma \in Coefficients
    /\ seasonalPeriod \in 1..MaxPeriod
    /\ forecastSize \in 0..MaxHorizon
    /\ seasonals = <<>>
    /\ level = Undefined
    /\ trend = Undefined
    /\ results = <<>>
    /\ i = 0
    /\ pc = "idle"
    /\ firstRender = [done |-> FALSE, moved |-> FALSE, out |-> <<>>]

Next == Call \/ Step \/ EndLoop \/ Forecast \/ Return

Spec == Init /\ [][Next]_vars

\* ------------------------------------------------- the HoltWintersDemo component
\* useState(0.5), useState(0.4), useState(0.6)
InitialAlpha == Rat(1, 2)

InitialBeta == Rat(2, 5)

InitialGamma == Rat(3, 5)

\* The component's state before its first render.  The array of
\* generateSampleData() is drawn from Inputs; seasonalPeriod and forecastSize,
\* which the component leaves to their defaults, are drawn once and never change.
DemoInit ==
    /\ data \in Inputs
    /\ alpha = InitialAlpha
    /\ beta = InitialBeta
    /\ gamma = InitialGamma
    /\ seasonalPeriod \in 1..MaxPeriod
    /\ forecastSize \in 0..MaxHorizon
    /\ seasonals = <<>>
    /\ level = Undefined
    /\ trend = Undefined
    /\ results = <<>>
    /\ i = 0
    /\ pc = "idle"
    /\ firstRender = [done |-> FALSE, moved |-> FALSE, out |-> <<>>]

\* A slider's onChange after a render: the state changes and a render is due.
SliderMoved ==
    /\ pc = "done"
    /\ pc' = "idle"
    /\ firstRender' = [firstRender EXCEPT !.moved = TRUE]
    /\ UNCHANGED <<data, seasonalPeriod, forecastSize, seasonals, level, trend, results, i>>

\* onChange={(_, value) => setAlpha(value)}
SetAlpha ==
    /\ \E value \in SliderValues \ {alpha} : alpha' = value
    /\ SliderMoved
    /\ UNCHANGED <<beta, gamma>>

\* onChange={(_, value) => setBeta(value)}
SetBeta ==
    /\ \E value \in SliderValues \ {beta} : beta' = value
    /\ SliderMoved
    /\ UNCHANGED <<alpha, gamma>>

\* onChange={(_, value) => setGamma(value)}
SetGamma ==
    /\ \E value \in SliderValues \ {gamma} : gamma' = value
    /\ SliderMoved
    /\ UNCHANGED <<alpha, beta>>

\* A render calls processedData(): holtWinters(data, alpha, beta, gamma).
Render ==
    /\ pc \in {"idle", "done"}
    /\ Enter(data, alpha, beta, gamma, seasonalPeriod, forecastSize)
    /\ UNCHANGED firstRender

\* processedData() returns to the chart; the first render's array is remembered.
RenderDone ==
    /\ ReturnResults
    /\ firstRender' = IF firstRender.done THEN firstRender
                      ELSE [done |-> TRUE, moved |-> FALSE, out |-> results]

DemoNext ==
    SetAlpha \/ SetBeta \/ SetGamma \/ Render \/ Step \/ EndLoop \/ Forecast \/ RenderDone

SpecDemo == DemoInit /\ [][DemoNext]_vars

\* ================================================================ claims
Zero == Int2Num(0)

One == Int2Num(1)

NObs == Len(data)

InCall == pc \in {"loop", "forecast", "done"}

\* Iterations of the loop of lines 32-46 completed by the current call.
StepsDone == IF pc = "loop" THEN i ELSE NObs

\* x lies in the closed interval [0, 1].
InUnit(x) == x.k = "fin" /\ (x.n = 0 \/ (x.s = 1 /\ x.n <= x.d))

\* The sum of the numbers of seq at the 0-based indices of the set idxs.
RECURSIVE SumAt(_, _)
SumAt(seq, idxs) ==
    IF idxs = {} THEN Zero
    ELSE LET j == CHOOSE x \in idxs : TRUE
         IN  Add(seq[j + 1], SumAt(seq, idxs \ {j}))

Total(seq) == SumAt(seq, 0..(Len(seq) - 1))

\* The raw average of phase p (0-based): the mean of series[p], series[p+m], ...
RawPhase(p) ==
    LET idxs == {j \in 0..(NObs - 1) : j % seasonalPeriod = p}
    IN  Div(SumAt(SeriesOf(data), idxs), Int2Num(Cardinality(idxs)))

\* The mean of the seasonalPeriod raw phase averages.
RawMean ==
    Div(SumAt([p \in 1..seasonalPeriod |-> RawPhase(p - 1)], 0..(seasonalPeriod - 1)),
        Int2Num(seasonalPeriod))

MeanUsable == IsFinite(RawMean) /\ ~IsZero(RawMean)

\* The seasonal table, level and trend the current call started its loop from.
Seas0 == Normalize(InitialSeasonals(SeriesOf(data), seasonalPeriod), seasonalPeriod)

Level0 == At(SeriesOf(data), 0)

Trend0 == Div(Sub(At(SeriesOf(data), seasonalPeriod), At(SeriesOf(data), 0)),
              Int2Num(seasonalPeriod))

\* Level0 + k * Trend0
Drift(k) == Add(Level0, Mul(Int2Num(k), Trend0))

\* ------------------------------------------------------------------- C1
\* C1: for n > seasonalPeriod >= 1 and every horizon h >= 0 the returned array has
\* exactly n + h records; record j carries the month and the value of data[j], in
\* the input order, and each of the last h records carries value null.
C1_OutputShape ==
    (pc = "done" /\ NObs > seasonalPeriod /\ seasonalPeriod >= 1) =>
        /\ Len(results) = NObs + forecastSize
        /\ \A j \in 1..NObs :
              results[j].month = data[j].month /\ results[j].value = data[j].value
        /\ \A j \in (NObs + 1)..(NObs + forecastSize) : results[j].value = Null

\* A call with n > seasonalPeriod and a horizon of at least 2 has returned.
C1_Witness ==
    pc = "done" /\ NObs > seasonalPeriod /\ forecastSize >= 2 /\ Len(results) >= 4

\* ------------------------------------------------------------------- C2
\* C2: a call whose series is no longer than seasonalPeriod ends in the
\* InsufficientSeries error and returns no array of records.
C2_InsufficientSeriesRejected == ~(pc = "done" /\ NObs <= seasonalPeriod)

\* ------------------------------------------------------------------- C3
\* C3: a call with alpha, beta or gamma outside [0, 1] ends in the
\* InvalidCoefficient error: it never runs the recurrence to a returned array.
C3_InvalidCoefficientRejected ==
    ~(pc = "done" /\ ~(InUnit(alpha) /\ InUnit(beta) /\ InUnit(gamma)))

\* ------------------------------------------------------------------- C4
\* C4: no returned array holds a fitted value obtained from a division by zero.
\* For a call with n > seasonalPeriod, a usable seasonal mean and coefficients in
\* [0, 1], a non-finite fitted value has no other origin than a zero divisor
\* (seasonals[i mod m] or the new level) in some step, so every fitted value of
\* the returned array is finite.
C4_NoDivisionByZeroOutput ==
    (/\ pc = "done"
     /\ NObs > seasonalPeriod
     /\ MeanUsable
     /\ InUnit(alpha) /\ InUnit(beta) /\ InUnit(gamma)) =>
        \A j \in 1..Len(results) : IsFinite(results[j].fitted)

\* ------------------------------------------------------------------- C5
\* The inputs of C5: alpha = beta = gamma = 0, n > seasonalPeriod, a usable
\* seasonal mean, and no step that divides by zero (no initial seasonal factor
\* is zero and Level0 + k * Trend0 is not zero for k in 1..n).
C5_Inputs ==
    /\ InCall
    /\ alpha = Zero /\ beta = Zero /\ gamma = Zero
    /\ NObs > seasonalPeriod
    /\ MeanUsable
    /\ \A p \in 1..seasonalPeriod : ~IsZero(Seas0[p])
    /\ \A k \in 1..NObs : ~IsZero(Drift(k))

\* C5 as claimed: with alpha = beta = gamma = 0, after every step the level and the
\* trend equal their seeds, the seasonal table is the initial one, and the fitted
\* value of step idx is (Level0 + Trend0) * seasonal[idx mod m].
C5_SeedsNeverMove ==
    C5_Inputs =>
        /\ level = Level0
        /\ trend = Trend0
        /\ seasonals = Seas0
        /\ \A j \in 1..StepsDone :
              results[j].fitted =
                  Mul(Add(Level0, Trend0), Seas0[((j - 1) % seasonalPeriod) + 1])

\* C5 amended: with alpha = beta = gamma = 0 the trend equals its seed and the
\* seasonal table is the initial one after every step, the level after step idx
\* is Level0 + (idx + 1) * Trend0, and the fitted value of step idx is
\* (Level0 + (idx + 2) * Trend0) * seasonal[idx mod m].
C5_LevelDriftsByTrend ==
    C5_Inputs =>
        /\ level = Drift(StepsDone)
        /\ trend = Trend0
        /\ seasonals = Seas0
        /\ \A j \in 1..StepsDone :
              results[j].fitted =
                  Mul(Drift(j + 1), Seas0[((j - 1) % seasonalPeriod) + 1])

\* Two steps done on C5's inputs with a seed trend that is not zero and two phases.
C5_Witness ==
    C5_Inputs /\ StepsDone >= 2 /\ ~IsZero(Trend0) /\ seasonalPeriod = 2

\* ------------------------------------------------------------------- C6
\* C6: for n >= seasonalPeriod >= 1 and raw phase averages of non-zero mean, the
\* seasonal table right after initialization (before the first step) has
\* seasonalPeriod entries that sum to seasonalPeriod (mean 1), each the raw phase
\* average divided by the mean of the raw phase averages.
C6_Normalized ==
    (pc = "loop" /\ i = 0 /\ NObs >= seasonalPeriod /\ MeanUsable) =>
        /\ Len(seasonals) = seasonalPeriod
        /\ Total(seasonals) = Int2Num(seasonalPeriod)
        /\ \A p \in 1..seasonalPeriod : seasonals[p] = Div(RawPhase(p - 1), RawMean)

\* A table of two factors that differ has just been initialized.
C6_Witness ==
    /\ pc = "loop" /\ i = 0 /\ NObs >= seasonalPeriod /\ MeanUsable
    /\ seasonalPeriod = 2
    /\ seasonals[1] # seasonals[2]

\* ------------------------------------------------------------------- C7
\* The observed values lie on a line: value[j] = a + b * j.
Slope == Sub(data[2].value, data[1].value)

IsLinear == \A j \in 1..(NObs - 1) : Sub(data[j + 1].value, data[j].value) = Slope

\* The inputs of C7: a linear series with no zero among its values, n >
\* seasonalPeriod, every initial seasonal factor 1, alpha = beta = 1, gamma = 0.
C7_Inputs ==
    /\ pc = "done"
    /\ alpha = One /\ beta = One /\ gamma = Zero
    /\ NObs > seasonalPeriod
    /\ IsLinear
    /\ \A j \in 1..NObs : ~IsZero(data[j].value)
    /\ \A p \in 1..seasonalPeriod : Seas0[p] = One

\* The forecasts of C7's inputs continue the line: forecast h is a + b * (n - 1 + h).
C7_ForecastsOnLine ==
    \A h \in 1..forecastSize :
        results[NObs + h].fitted = Add(data[NObs].value, Mul(Int2Num(h), Slope))

\* C7 as claimed: on C7's inputs every fitted value equals the line's value at its
\* index, and every forecast equals the line's value at its step.
C7_LinearExact ==
    C7_Inputs =>
        /\ \A j \in 1..NObs : results[j].fitted = data[j].value
        /\ C7_ForecastsOnLine

\* C7 amended: on C7's inputs the fitted value at index 0 is the line's value a,
\* the fitted value at every index idx >= 1 is a + b * (idx + 1), one trend step
\* past the line's value, and every forecast equals the line's value at its step.
C7_FittedOneStepAhead ==
    C7_Inputs =>
        /\ results[1].fitted = data[1].value
        /\ \A j \in 2..NObs : results[j].fitted = Add(data[j].value, Slope)
        /\ C7_ForecastsOnLine

\* A call on a line of three values, non-zero slope and two phases has returned
\* its fitted values and at least two forecasts.
C7_Witness ==
    C7_Inputs /\ ~IsZero(Slope) /\ NObs >= 3 /\ seasonalPeriod = 2 /\ forecastSize >= 2

\* ------------------------------------------------------------------- C8
\* C8: the array a call returns depends only on the call's arguments, whatever
\* calls were made before it: whenever a render with the first render's arguments
\* returns, after any sequence of slider changes and renders, it returns the array
\* the first render returned; and no step ever changes the data array.
C8_Deterministic ==
    /\ [](( /\ pc = "done"
            /\ firstRender.done
            /\ alpha = InitialAlpha /\ beta = InitialBeta /\ gamma = InitialGamma)
          => results = firstRender.out)
    /\ [][data' = data]_vars

\* A render with the first render's arguments has returned after sliders moved.
C8_Witness ==
    /\ pc = "done"
    /\ firstRender.done /\ firstRender.moved
    /\ alpha = InitialAlpha /\ beta = InitialBeta /\ gamma = InitialGamma
    /\ NObs > seasonalPeriod
    /\ Len(results) >= 3
    /\ \A j \in 1..Len(results) : IsFinite(results[j].fitted)

\* ------------------------------------------------------------------- C9
\* C9: in step idx the new level is computed from the pre-update seasonals[idx mod m]
\* and the previous level and trend; the new trend from the new level and the
\* previous level; seasonals[idx mod m] from value / new level and its own
\* pre-update value; the fitted value pushed is (new level + new trend) * updated
\* seasonals[idx mod m]; and no other seasonal slot changes.
C9_UpdateOrder ==
    [][(pc = "loop" /\ pc' = "loop" /\ i' = i + 1) =>
        LET value == data[i + 1].value
            slot == (i % seasonalPeriod) + 1
        IN  /\ level' = Add(Mul(alpha, Div(value, seasonals[slot])),
                            Mul(Sub(One, alpha), Add(level, trend)))
            /\ trend' = Add(Mul(beta, Sub(level', level)), Mul(Sub(One, beta), trend))
            /\ seasonals'[slot] = Add(Mul(gamma, Div(value, level')),
                                      Mul(Sub(One, gamma), seasonals[slot]))
            /\ Len(results') = i + 1
            /\ results'[i + 1].fitted = Mul(Add(level', trend'), seasonals'[slot])
            /\ \A p \in 1..seasonalPeriod : p # slot => seasonals'[p] = seasonals[p]
      ]_vars

\* Three steps done on two phases with alpha = beta = gamma = 1/2, all values finite
\* and the level off its previous course.
C9_Witness ==
    /\ pc = "loop" /\ i = 3
    /\ seasonalPeriod = 2
    /\ alpha = Rat(1, 2) /\ beta = Rat(1, 2) /\ gamma = Rat(1, 2)
    /\ IsFinite(level) /\ IsFinite(trend)
    /\ seasonals[1] # seasonals[2]
    /\ \A j \in 1..3 : IsFinite(results[j].fitted)

\* ------------------------------------------------------------------ C10
\* C10: the forecast loop leaves level, trend and the seasonal table as the last
\* step committed them, and forecast h (the record at position n + h - 1) has
\* value null and fitted = (level + trend * h) * seasonals[(n + h - 1) mod m], so
\* that no forecast depends on an earlier one.
C10_ForecastProjection ==
    /\ [](pc \in {"forecast", "done"} =>
            \A h \in 1..(Len(results) - NObs) :
                /\ results[NObs + h].value = Null
                /\ results[NObs + h].fitted =
                      Mul(Add(level, Mul(trend, Int2Num(h))),
                          seasonals[((NObs + h - 1) % seasonalPeriod) + 1]))
    /\ [][((pc = "loop" /\ i = NObs) \/ pc = "forecast") =>
            (level' = level /\ trend' = trend /\ seasonals' = seasonals)]_vars

\* Three forecasts returned on two phases whose factors differ, the first and the
\* third from the same slot, with a trend that is not zero, after a recurrence
\* with alpha = gamma = 1/2 that has updated the level and the table.
C10_Witness ==
    /\ pc = "done"
    /\ alpha = Rat(1, 2) /\ gamma = Rat(1, 2)
    /\ seasonalPeriod = 2 /\ forecastSize = 3 /\ NObs = 3
    /\ IsFinite(level) /\ IsFinite(trend) /\ ~IsZero(trend)
    /\ IsFinite(seasonals[1]) /\ IsFinite(seasonals[2])
    /\ seasonals[1] # seasonals[2]
    /\ \A j \in 1..Len(results) : IsFinite(results[j].fitted)

====
